---- MODULE Spec2Model ----
(***************************************************************************)
(* Model of stores/local.go: the local path registry (Local.paths), the    *)
(* allocation engine (AcquireSector), the lifecycle operations (Remove,    *)
(* RemoveCopies, MoveStorage) and startup (NewLocal / open / OpenPath).    *)
(* The sector index and the filesystem are the environment: the index is   *)
(* a table of attached storages and a set of sector declarations, the      *)
(* filesystem a set of file paths.                                         *)
(***************************************************************************)
EXTENDS Integers, Sequences, FiniteSets, TLC

VARIABLES
    paths,    \* Local.paths: StorageID -> local root
    stores,   \* index: StorageID -> StorageInfo of every attached storage
    decls,    \* index: set of declarations [sector, typ, storage, primary]
    disk,     \* filesystem: set of sector file paths
    last,     \* the last completed public call: arguments, result, effects
    procs,    \* the calls in progress, one per caller, each with its position
    overlap,  \* a removal was in progress together with a MoveStorage
    ncalls,   \* calls started so far
    boot,     \* NewLocal: the configured paths and how far open has come
    lock,     \* localLk: whether a writer holds it, and the readers holding it
    health    \* reportHealth: its position, its interval, its reports, its context

vars == <<paths, stores, decls, disk, last, procs, overlap, ncalls, boot, lock, health>>

\* the lock and the health reporter
lockVars == <<lock, health>>

\* what the calls in progress are made of, and startup
concVars == <<procs, overlap, ncalls>>

----------------------------------------------------------------------------
(* Bounds *)

\* longest candidate list StorageBestAlloc returns
MaxCands == 2

\* most copies of the sector's files the index holds when the calls start
MaxHolders == 2

\* most calls started in one behaviour of the interleaved callers
MaxCalls == 2

\* most paths the configuration lists
MaxPaths == 2

\* most entries the configured directories hold when the store is opened
MaxFiles == 2

\* largest HeartbeatInterval the reporter is started with
MaxInterval == 100

----------------------------------------------------------------------------
(* File types, path types, sector names *)

FTNone == 0
FTUnsealed == 1
FTSealed == 2
FTCache == 4

PathTypes == <<FTUnsealed, FTSealed, FTCache>>

PathTypeSet == {PathTypes[i] : i \in 1..Len(PathTypes)}

\* every value of the three flag bits
FileTypeSets == 0..(FTUnsealed + FTSealed + FTCache)

FileTypeString(t) ==
    CASE t = FTUnsealed -> "unsealed"
      [] t = FTSealed -> "sealed"
      [] t = FTCache -> "cache"
      [] OTHER -> "<unknown>"

PathSealing == TRUE
PathStorage == FALSE

RECURSIVE BitAnd(_, _)
BitAnd(x, y) ==
    IF x = 0 \/ y = 0 THEN 0
    ELSE ((x % 2) * (y % 2)) + 2 * BitAnd(x \div 2, y \div 2)

RECURSIVE BitOr(_, _)
BitOr(x, y) ==
    IF x = 0 THEN y
    ELSE IF y = 0 THEN x
    ELSE (IF (x % 2) + (y % 2) > 0 THEN 1 ELSE 0) + 2 * BitOr(x \div 2, y \div 2)

RECURSIVE BitXor(_, _)
BitXor(x, y) ==
    IF x = 0 THEN y
    ELSE IF y = 0 THEN x
    ELSE (((x % 2) + (y % 2)) % 2) + 2 * BitXor(x \div 2, y \div 2)

RECURSIVE OnesCount(_)
OnesCount(x) == IF x = 0 THEN 0 ELSE (x % 2) + OnesCount(x \div 2)

SectorA == [Miner |-> 1, Number |-> 1]
SectorB == [Miner |-> 1, Number |-> 2]
SectorIDs == {SectorA, SectorB}

SectorName(sid) == "s-t0" \o ToString(sid.Miner) \o "-" \o ToString(sid.Number)

\* filepath.Join of a root, a type directory and an entry name
JoinPath(root, dir, name) ==
    IF root = "" THEN dir \o "/" \o name ELSE root \o "/" \o dir \o "/" \o name

SectorPath(root, fileType, sid) ==
    JoinPath(root, FileTypeString(fileType), SectorName(sid))

\* SectorPaths: one string per file type, "" when unset
EmptyPaths == [t \in PathTypeSet |-> ""]

SetPathByType(sps, fileType, p) == [sps EXCEPT ![fileType] = p]

PathByType(sps, fileType) == sps[fileType]

----------------------------------------------------------------------------
(* Storages of the deployment *)

\* s0..s4 are local directories with a descriptor (s0 is the directory "",
\* the process's working directory), r1 is a storage another process attached
\* to the shared index
StorageIDs == {"s0", "s1", "s2", "s3", "s4", "r1"}

MetaOf(id) ==
    CASE id = "s0" -> [ID |-> "s0", Weight |-> 10, CanSeal |-> TRUE, CanStore |-> TRUE]
      [] id = "s1" -> [ID |-> "s1", Weight |-> 10, CanSeal |-> TRUE, CanStore |-> FALSE]
      [] id = "s2" -> [ID |-> "s2", Weight |-> 10, CanSeal |-> FALSE, CanStore |-> TRUE]
      [] id = "s3" -> [ID |-> "s3", Weight |-> 0, CanSeal |-> TRUE, CanStore |-> TRUE]
      [] id = "s4" -> [ID |-> "s4", Weight |-> 10, CanSeal |-> TRUE, CanStore |-> FALSE]
      [] OTHER -> [ID |-> id, Weight |-> 10, CanSeal |-> TRUE, CanStore |-> TRUE]

RootOf(id) ==
    CASE id = "s0" -> ""
      [] id = "s1" -> "/p1"
      [] id = "s2" -> "/p2"
      [] id = "s3" -> "/p3"
      [] id = "s4" -> "/p4"
      [] OTHER -> "/remote"

\* the registry after the directories of `ids` were opened
RegistryOf(ids) == [id \in ids |-> RootOf(id)]

\* the index's storage table with `ids` attached
StoresOf(ids) == [id \in ids |-> MetaOf(id)]

----------------------------------------------------------------------------
(* Errors *)

ErrNone == "nil"
ErrConflict == "can't both find and allocate a sector"
ErrBestAlloc == "finding best storage for allocating"
ErrNoSuitable == "couldn't find a suitable path for a sector"
ErrOneType == "delete expects one file type"
ErrFind == "finding existing sector failed"
ErrNotFound == "can't delete sector, not found"
ErrDrop == "dropping sector from index"
ErrAcquireDest == "acquire dest storage"
ErrAcquireSrc == "acquire src storage"
ErrInfo == "failed to get source storage info"
ErrDropSource == "dropping source sector from index"
ErrMove == "moving sector"
ErrDeclare == "declare sector"

----------------------------------------------------------------------------
(* The sector index, as this store sees it *)

\* the enumerations of a finite set, in every order
RECURSIVE Perms(_)
Perms(S) ==
    IF S = {} THEN {<<>>}
    ELSE UNION {{<<x>> \o rest : rest \in Perms(S \ {x})} : x \in S}

\* the sequences of at most n distinct elements of S
RECURSIVE SeqsUpTo(_, _)
SeqsUpTo(S, n) ==
    IF n = 0 THEN {<<>>}
    ELSE {<<>>} \cup UNION {{<<x>> \o rest : rest \in SeqsUpTo(S \ {x}, n - 1)} : x \in S}

Holders(d, sid, fileType) == {x \in d : x.sector = sid /\ x.typ = fileType}

\* an answer of an index call: an error, or a list
Answer(list) == [err |-> FALSE, list |-> list]
Failure == [err |-> TRUE, list |-> <<>>]

\* StorageFindSector(sid, fileType, false): the holders, in an order the
\* index chooses, or an error
FindAnswers(d, sid, fileType) ==
    {Failure} \cup
    {Answer(l) : l \in Perms({[ID |-> x.storage, Primary |-> x.primary] :
                                x \in Holders(d, sid, fileType)})}

\* StorageBestAlloc(fileType, spt, pathType): a list of attached storages the
\* index ranks by its own state (weights, free space, health), or an error
AllocAnswers(st) ==
    {Failure} \cup {Answer(l) : l \in SeqsUpTo({st[id] : id \in DOMAIN st}, MaxCands)}

StorageDropSector(d, storage, sid, fileType) ==
    {x \in d : ~(x.sector = sid /\ x.typ = fileType /\ x.storage = storage)}

StorageDeclareSector(d, storage, sid, fileType, primary) ==
    LET old == {x \in d : x.sector = sid /\ x.typ = fileType /\ x.storage = storage}
        wasPrimary == \E x \in old : x.primary
    IN (d \ old) \cup {[sector |-> sid, typ |-> fileType, storage |-> storage,
                        primary |-> (primary \/ wasPrimary)]}

\* StorageInfo(id): the info of an attached storage, an error otherwise
StorageInfoKnown(st, id) == id \in DOMAIN st

----------------------------------------------------------------------------
(* AcquireSector *)

CallFind(fileType) == [op |-> "StorageFindSector", typ |-> fileType]
CallAlloc(fileType) == [op |-> "StorageBestAlloc", typ |-> fileType]

AcquireFailure(err, calls) ==
    [out |-> EmptyPaths, ids |-> EmptyPaths, err |-> err, calls |-> calls]

\* the conflict test comparing the two sets instead of their bits
ConflictingRequest_SameSet(existing, allocate) ==
    existing = allocate /\ existing # FTNone

\* existing|allocate != existing^allocate
ConflictingRequest(existing, allocate) ==
    BitOr(existing, allocate) # BitXor(existing, allocate)

\* a holder or candidate the registry knows, with a non-empty root
Usable(reg, id) == id \in DOMAIN reg /\ reg[id] # ""

\* the scan of one StorageFindSector list: the first usable holder, or none
RECURSIVE FirstUsable(_, _)
FirstUsable(reg, si) ==
    IF si = <<>> THEN <<>>
    ELSE IF Usable(reg, Head(si).ID) THEN <<Head(si)>>
    ELSE FirstUsable(reg, Tail(si))

\* the loop over the file types of `existing`, from PathTypes[i] on
RECURSIVE FindExisting(_, _, _, _, _, _)
FindExisting(reg, sid, existing, findAns, i, acc) ==
    IF i > Len(PathTypes) THEN acc
    ELSE LET fileType == PathTypes[i] IN
         IF BitAnd(fileType, existing) = 0
         THEN FindExisting(reg, sid, existing, findAns, i + 1, acc)
         ELSE LET called == [acc EXCEPT !.calls = Append(@, CallFind(fileType))]
                  ans == findAns[fileType]
                  hit == FirstUsable(reg, ans.list)
              IN IF ans.err \/ hit = <<>>
                 THEN FindExisting(reg, sid, existing, findAns, i + 1, called)
                 ELSE FindExisting(reg, sid, existing, findAns, i + 1,
                        [called EXCEPT
                           !.out = SetPathByType(@, fileType,
                                     SectorPath(reg[hit[1].ID], fileType, sid)),
                           !.ids = SetPathByType(@, fileType, hit[1].ID)])

\* the filters without the CanStore test
Allocatable_NoStoreTest(reg, si, pathType) ==
    /\ Usable(reg, si.ID)
    /\ ~((pathType = PathSealing) /\ ~si.CanSeal)

\* the filters asking for CanSeal whatever the path type
Allocatable_SealAlways(reg, si, pathType) ==
    /\ Usable(reg, si.ID)
    /\ si.CanSeal
    /\ ~((pathType = PathStorage) /\ ~si.CanStore)

\* whether a candidate passes the filters of the allocate loop
Allocatable(reg, si, pathType) ==
    /\ Usable(reg, si.ID)
    /\ ~((pathType = PathSealing) /\ ~si.CanSeal)
    /\ ~((pathType = PathStorage) /\ ~si.CanStore)

\* the scan keeping the first candidate that passes the filters
RECURSIVE BestOf_FirstWins(_, _, _, _, _, _)
BestOf_FirstWins(reg, sid, fileType, pathType, sis, acc) ==
    IF sis = <<>> THEN acc
    ELSE IF Allocatable(reg, Head(sis), pathType) /\ acc.best = ""
    THEN BestOf_FirstWins(reg, sid, fileType, pathType, Tail(sis),
                [best |-> SectorPath(reg[Head(sis).ID], fileType, sid),
                 bestID |-> Head(sis).ID])
    ELSE BestOf_FirstWins(reg, sid, fileType, pathType, Tail(sis), acc)

\* the scan of one StorageBestAlloc list: best and bestID after the loop
RECURSIVE BestOf(_, _, _, _, _, _)
BestOf(reg, sid, fileType, pathType, sis, acc) ==
    IF sis = <<>> THEN acc
    ELSE IF Allocatable(reg, Head(sis), pathType)
    THEN BestOf(reg, sid, fileType, pathType, Tail(sis),
                [best |-> SectorPath(reg[Head(sis).ID], fileType, sid),
                 bestID |-> Head(sis).ID])
    ELSE BestOf(reg, sid, fileType, pathType, Tail(sis), acc)

\* the allocate loop passing over a file type whose StorageBestAlloc failed,
\* the way the existing loop passes over a failed StorageFindSector
RECURSIVE AllocateNew_IgnoreError(_, _, _, _, _, _, _)
AllocateNew_IgnoreError(reg, sid, allocate, pathType, allocAns, i, acc) ==
    IF i > Len(PathTypes) THEN acc
    ELSE LET fileType == PathTypes[i] IN
         IF BitAnd(fileType, allocate) = 0
         THEN AllocateNew_IgnoreError(reg, sid, allocate, pathType, allocAns, i + 1, acc)
         ELSE LET calls == Append(acc.calls, CallAlloc(fileType))
                  ans == allocAns[fileType]
                  b == BestOf(reg, sid, fileType, pathType, ans.list,
                              [best |-> "", bestID |-> ""])
              IN IF ans.err
                 THEN AllocateNew_IgnoreError(reg, sid, allocate, pathType, allocAns, i + 1,
                        [acc EXCEPT !.calls = calls])
                 ELSE IF b.best = "" THEN AcquireFailure(ErrNoSuitable, calls)
                 ELSE AllocateNew_IgnoreError(reg, sid, allocate, pathType, allocAns, i + 1,
                        [acc EXCEPT
                           !.out = SetPathByType(@, fileType, b.best),
                           !.ids = SetPathByType(@, fileType, b.bestID),
                           !.calls = calls])

\* the loop over the file types of `allocate`, from PathTypes[i] on
RECURSIVE AllocateNew(_, _, _, _, _, _, _)
AllocateNew(reg, sid, allocate, pathType, allocAns, i, acc) ==
    IF i > Len(PathTypes) THEN acc
    ELSE LET fileType == PathTypes[i] IN
         IF BitAnd(fileType, allocate) = 0
         THEN AllocateNew(reg, sid, allocate, pathType, allocAns, i + 1, acc)
         ELSE LET calls == Append(acc.calls, CallAlloc(fileType))
                  ans == allocAns[fileType]
                  b == BestOf(reg, sid, fileType, pathType, ans.list,
                              [best |-> "", bestID |-> ""])
              IN IF ans.err THEN AcquireFailure(ErrBestAlloc, calls)
                 ELSE IF b.best = "" THEN AcquireFailure(ErrNoSuitable, calls)
                 ELSE AllocateNew(reg, sid, allocate, pathType, allocAns, i + 1,
                        [acc EXCEPT
                           !.out = SetPathByType(@, fileType, b.best),
                           !.ids = SetPathByType(@, fileType, b.bestID),
                           !.calls = calls])

\* AcquireSector under the index answers findAns and allocAns (one per file
\* type): the paths, the storage ids, the error and the index calls made
AcquireSector(reg, sid, existing, allocate, pathType, findAns, allocAns) ==
    IF ConflictingRequest(existing, allocate)
    THEN AcquireFailure(ErrConflict, <<>>)
    ELSE AllocateNew(reg, sid, allocate, pathType, allocAns, 1,
            FindExisting(reg, sid, existing, findAns, 1,
                [out |-> EmptyPaths, ids |-> EmptyPaths, err |-> ErrNone,
                 calls |-> <<>>]))

\* the index answers a call with these arguments can meet: one per file type
\* it asks about (the others are never read)
AnswersByType(u, s, c) ==
    [t \in PathTypeSet |-> IF t = FTUnsealed THEN u ELSE IF t = FTSealed THEN s ELSE c]

FindAnswerFor(d, sid, existing, t) ==
    IF BitAnd(t, existing) # 0 THEN FindAnswers(d, sid, t) ELSE {Failure}

FindAnswerSets(d, sid, existing) ==
    {AnswersByType(u, s, c) :
        u \in FindAnswerFor(d, sid, existing, FTUnsealed),
        s \in FindAnswerFor(d, sid, existing, FTSealed),
        c \in FindAnswerFor(d, sid, existing, FTCache)}

AllocAnswerFor(st, allocate, t) ==
    IF BitAnd(t, allocate) # 0 THEN AllocAnswers(st) ELSE {Failure}

AllocAnswerSets(st, allocate) ==
    {AnswersByType(u, s, c) :
        u \in AllocAnswerFor(st, allocate, FTUnsealed),
        s \in AllocAnswerFor(st, allocate, FTSealed),
        c \in AllocAnswerFor(st, allocate, FTCache)}

----------------------------------------------------------------------------
(* Calls of AcquireSector on an opened store *)

NoCall == [op |-> "none"]

\* the callers of the interleaved specification
Procs == {1, 2}
Idle == [op |-> "idle"]
NoCallers ==
    /\ procs = [p \in Procs |-> Idle]
    /\ overlap = FALSE
    /\ ncalls = 0

\* startup is over
Booted == [state |-> "booted"]

\* localLk held by nobody
Unlocked == [writer |-> FALSE, pending |-> FALSE, readers |-> {}]

\* no health reporter running
NoHealth == [pc |-> "none"]

NoLocking ==
    /\ lock = Unlocked
    /\ health = NoHealth

\* the directories of s0..s3 hold a descriptor; a store opened on all four,
\* or on /p1 and /p2 alone (s0 and s3 are then storages of another store)
LocalIDs == {"s0", "s1", "s2", "s3"}
AcquireRegistries == {RegistryOf(LocalIDs), RegistryOf({"s1", "s2"})}

Decl(sid, fileType, storage, primary) ==
    [sector |-> sid, typ |-> fileType, storage |-> storage, primary |-> primary]

AcquireDecls ==
    {Decl(SectorA, FTSealed, "s1", FALSE), Decl(SectorA, FTSealed, "s2", TRUE),
     Decl(SectorA, FTCache, "s0", FALSE), Decl(SectorA, FTCache, "s3", TRUE),
     Decl(SectorA, FTCache, "s1", FALSE)}

\* the files the declarations of the registered storages stand for
FilesOf(reg, d) ==
    {SectorPath(reg[x.storage], x.typ, x.sector) : x \in {y \in d : y.storage \in DOMAIN reg}}

InitAcquire ==
    /\ paths \in AcquireRegistries
    /\ stores = StoresOf(LocalIDs)
    /\ decls = AcquireDecls
    /\ disk = FilesOf(RegistryOf(LocalIDs), AcquireDecls)
    /\ last = NoCall
    /\ NoCallers
    /\ NoLocking
    /\ boot = Booted

\* a request whose two sets overlap never reaches the index: no answers are
\* enumerated for it
AcquireCall ==
    /\ last = NoCall
    /\ \E sid \in {SectorA}, existing \in FileTypeSets, allocate \in FileTypeSets,
          pathType \in {PathSealing, PathStorage} :
         \E findAns \in (IF BitAnd(existing, allocate) # 0
                         THEN [PathTypeSet -> {Failure}]
                         ELSE FindAnswerSets(decls, sid, existing)),
            allocAns \in (IF BitAnd(existing, allocate) # 0
                          THEN [PathTypeSet -> {Failure}]
                          ELSE AllocAnswerSets(stores, allocate)) :
            last' = [op |-> "AcquireSector", sid |-> sid, existing |-> existing,
                     allocate |-> allocate, pathType |-> pathType,
                     findAns |-> findAns, allocAns |-> allocAns,
                     ret |-> AcquireSector(paths, sid, existing, allocate, pathType,
                                           findAns, allocAns)]
    /\ UNCHANGED <<paths, stores, decls, disk, concVars, boot, lockVars>>

NextAcquire == AcquireCall

SpecAcquire == InitAcquire /\ [][NextAcquire]_vars


----------------------------------------------------------------------------
(* Claims about AcquireSector *)

AcquireDone == last.op = "AcquireSector"

\* bit i of a file-type set
BitOf(x, i) == (x \div (2 ^ i)) % 2

SharesBit(a, b) == \E i \in 0..2 : BitOf(a, i) = 1 /\ BitOf(b, i) = 1

InSet(fileType, set) == \E i \in 0..2 : fileType = 2 ^ i /\ BitOf(set, i) = 1

\* the index call for fileType was made and answered with a list
AllocAnswered(fileType) ==
    /\ \E k \in 1..Len(last.ret.calls) : last.ret.calls[k] = CallAlloc(fileType)
    /\ ~last.allocAns[fileType].err

\* the candidates of fileType's list that are registered, have a non-empty
\* root and have the capability the path type asks for
Survivors(fileType) ==
    {c \in {last.allocAns[fileType].list[k] :
                k \in 1..Len(last.allocAns[fileType].list)} :
        /\ c.ID \in DOMAIN paths
        /\ paths[c.ID] # ""
        /\ (last.pathType = PathSealing => c.CanSeal)
        /\ (last.pathType = PathStorage => c.CanStore)}

\* <root>/<typename>/<sectorid> of a surviving candidate is returned for fileType
ReturnsSurvivorPath(fileType) ==
    /\ last.ret.err = ErrNone
    /\ \E c \in Survivors(fileType) :
          /\ last.ret.ids[fileType] = c.ID
          /\ last.ret.out[fileType] =
                paths[c.ID] \o "/" \o FileTypeString(fileType) \o "/"
                    \o SectorName(last.sid)

\* the call failed on a file type of allocate that comes after fileType
FailedOnLaterType(fileType) ==
    /\ last.ret.err \in {ErrBestAlloc, ErrNoSuitable}
    /\ last.ret.out = EmptyPaths
    /\ \E k \in 1..Len(last.ret.calls) :
          /\ last.ret.calls[k].op = "StorageBestAlloc"
          /\ last.ret.calls[k].typ > fileType
          /\ InSet(last.ret.calls[k].typ, last.allocate)
          /\ (last.allocAns[last.ret.calls[k].typ].err
                \/ Survivors(last.ret.calls[k].typ) = {})

\* C2: AcquireSector fails with the conflicting-request error, before any
\* index call, exactly when existing and allocate share a bit; when they are
\* disjoint the disjointness check does not fail
C2_ConflictIffOverlap ==
    AcquireDone =>
        IF SharesBit(last.existing, last.allocate)
        THEN last.ret.err = ErrConflict /\ last.ret.calls = <<>>
        ELSE last.ret.err # ErrConflict

C2_Witness ==
    /\ AcquireDone
    /\ last.existing = FTUnsealed + FTSealed
    /\ last.allocate = FTSealed + FTCache
    /\ last.ret.err = ErrConflict

\* C3 as stated: a file type of allocate whose list has a surviving candidate
\* gets a path of such a candidate; with no surviving candidate the call
\* fails with NoSuitableStorage
C3_AsStated ==
    AcquireDone =>
        \A t \in PathTypeSet :
            (InSet(t, last.allocate) /\ AllocAnswered(t)) =>
                IF Survivors(t) # {} THEN ReturnsSurvivorPath(t)
                ELSE last.ret.err = ErrNoSuitable

\* C3: a file type of allocate whose list has a surviving candidate
\* gets the path <root>/<typename>/<sectorid> of such a candidate unless the
\* call fails on a later file type of allocate, and then it returns no path
\* at all; a file type whose list has no surviving candidate makes the whole
\* call fail with NoSuitableStorage
C3_SurvivorPathUnlessLaterFailure ==
    AcquireDone =>
        \A t \in PathTypeSet :
            (InSet(t, last.allocate) /\ AllocAnswered(t)) =>
                IF Survivors(t) # {}
                THEN ReturnsSurvivorPath(t) \/ FailedOnLaterType(t)
                ELSE last.ret.err = ErrNoSuitable /\ last.ret.out = EmptyPaths

C3_Witness ==
    /\ AcquireDone
    /\ last.allocate = FTSealed + FTCache
    /\ AllocAnswered(FTSealed)
    /\ Len(last.allocAns[FTSealed].list) = 2
    /\ Cardinality(Survivors(FTSealed)) = 1
    /\ ReturnsSurvivorPath(FTSealed)
    /\ ReturnsSurvivorPath(FTCache)

\* C9: no storage of Weight 0 is returned as the allocation target of a file
\* type of allocate
C9_NoZeroWeightTarget ==
    (AcquireDone /\ last.ret.err = ErrNone) =>
        \A t \in PathTypeSet :
            InSet(t, last.allocate) =>
                \A k \in 1..Len(last.allocAns[t].list) :
                    last.allocAns[t].list[k].ID = last.ret.ids[t] =>
                        last.allocAns[t].list[k].Weight # 0


\* the index was asked for the holders of fileType
FindAsked(fileType) ==
    \E k \in 1..Len(last.ret.calls) : last.ret.calls[k] = CallFind(fileType)

\* the index was asked for the candidates of fileType
AllocAsked(fileType) ==
    \E k \in 1..Len(last.ret.calls) : last.ret.calls[k] = CallAlloc(fileType)

\* what the call returns when the index reports no holder of fileType
WithNoHolder(fileType) ==
    AcquireSector(paths, last.sid, last.existing, last.allocate, last.pathType,
                  [last.findAns EXCEPT ![fileType] = Answer(<<>>)], last.allocAns)

ListHas(list, id) == \E k \in 1..Len(list) : list[k].ID = id

\* C12 as stated: with s1 (CanSeal) and s2 (CanStore) opened, allocating the
\* sealed file of a new sector with PathType Storage fails with
\* NoSuitableStorage
C12_AsStated ==
    (/\ AcquireDone
     /\ DOMAIN paths = {"s1", "s2"}
     /\ last.existing = FTNone /\ last.allocate = FTSealed
     /\ last.pathType = PathStorage
     /\ ~last.allocAns[FTSealed].err) =>
        last.ret.err = ErrNoSuitable

\* C12: with s1 (CanSeal) and s2 (CanStore) opened, allocating the sealed
\* file with PathType Storage returns /p2/sealed/<sector> on s2 when the list
\* of StorageBestAlloc holds s2, and fails with NoSuitableStorage when it
\* does not
C12_StorageAllocationTakesS2 ==
    (/\ AcquireDone
     /\ DOMAIN paths = {"s1", "s2"}
     /\ last.existing = FTNone /\ last.allocate = FTSealed
     /\ last.pathType = PathStorage
     /\ ~last.allocAns[FTSealed].err) =>
        IF ListHas(last.allocAns[FTSealed].list, "s2")
        THEN /\ last.ret.err = ErrNone
             /\ last.ret.ids[FTSealed] = "s2"
             /\ last.ret.out[FTSealed] = "/p2/sealed/" \o SectorName(last.sid)
        ELSE last.ret.err = ErrNoSuitable

\* the index offers s1 and s2 and the call returns the path on s2
C12_Witness ==
    /\ AcquireDone
    /\ DOMAIN paths = {"s1", "s2"}
    /\ last.existing = FTNone /\ last.allocate = FTSealed
    /\ last.pathType = PathStorage
    /\ ListHas(last.allocAns[FTSealed].list, "s1")
    /\ ListHas(last.allocAns[FTSealed].list, "s2")
    /\ last.ret.ids[FTSealed] = "s2"

\* the positions of a list whose storage is registered with a non-empty root
UsableAt(list) ==
    {k \in 1..Len(list) : list[k].ID \in DOMAIN paths /\ paths[list[k].ID] # ""}

\* the positions of fileType's candidate list that pass the filters
SurvivorsAt(fileType) ==
    {k \in UsableAt(last.allocAns[fileType].list) :
        /\ (last.pathType = PathSealing => last.allocAns[fileType].list[k].CanSeal)
        /\ (last.pathType = PathStorage => last.allocAns[fileType].list[k].CanStore)}

Largest(S) == CHOOSE k \in S : \A j \in S : j <= k
Smallest(S) == CHOOSE k \in S : \A j \in S : k <= j

----------------------------------------------------------------------------
(* Remove, RemoveCopies, removeSector *)

\* one step a call took on the index or the filesystem, and whether it succeeded
Effect(op, storage, fileType, ok) ==
    [op |-> op, storage |-> storage, typ |-> fileType, ok |-> ok]

\* the state a call works on: the index declarations, the disk, the steps
\* taken so far and the error to return
Work(d, dk) == [decls |-> d, disk |-> dk, log |-> <<>>, err |-> ErrNone]

\* removeSector deleting the file and leaving the index entry
removeSector_NoDrop(reg, w, sid, typ, storage, dropFails, delFails) ==
    IF storage \notin DOMAIN reg THEN w
    ELSE IF reg[storage] = "" THEN w
    ELSE IF delFails
    THEN [w EXCEPT !.log = Append(@, Effect("RemoveAll", storage, typ, FALSE))]
    ELSE [w EXCEPT !.disk = @ \ {SectorPath(reg[storage], typ, sid)},
                   !.log = Append(@, Effect("RemoveAll", storage, typ, TRUE))]

\* removeSector returning the error of os.RemoveAll
removeSector_DeleteFatal(reg, w, sid, typ, storage, dropFails, delFails) ==
    IF storage \notin DOMAIN reg THEN w
    ELSE IF reg[storage] = "" THEN w
    ELSE IF dropFails
    THEN [w EXCEPT !.err = ErrDrop,
                   !.log = Append(@, Effect("StorageDropSector", storage, typ, FALSE))]
    ELSE LET dropped ==
                [w EXCEPT !.decls = StorageDropSector(@, storage, sid, typ),
                          !.log = Append(@, Effect("StorageDropSector", storage, typ, TRUE))]
             spath == SectorPath(reg[storage], typ, sid)
         IN IF delFails
            THEN [dropped EXCEPT !.err = "removing sector",
                                 !.log = Append(@, Effect("RemoveAll", storage, typ, FALSE))]
            ELSE [dropped EXCEPT !.disk = @ \ {spath},
                                 !.log = Append(@, Effect("RemoveAll", storage, typ, TRUE))]

\* removeSector: dropFails and delFails say whether StorageDropSector and
\* os.RemoveAll fail for this storage
removeSector(reg, w, sid, typ, storage, dropFails, delFails) ==
    IF storage \notin DOMAIN reg THEN w
    ELSE IF reg[storage] = "" THEN w
    ELSE IF dropFails
    THEN [w EXCEPT !.err = ErrDrop,
                   !.log = Append(@, Effect("StorageDropSector", storage, typ, FALSE))]
    ELSE LET dropped ==
                [w EXCEPT !.decls = StorageDropSector(@, storage, sid, typ),
                          !.log = Append(@, Effect("StorageDropSector", storage, typ, TRUE))]
             spath == SectorPath(reg[storage], typ, sid)
         IN IF delFails
            THEN [dropped EXCEPT !.log = Append(@, Effect("RemoveAll", storage, typ, FALSE))]
            ELSE [dropped EXCEPT !.disk = @ \ {spath},
                                 !.log = Append(@, Effect("RemoveAll", storage, typ, TRUE))]

\* the loop of Remove returning after the first holder
RemoveHolders_FirstOnly(reg, w, sid, typ, si, dropFail, delFail) ==
    IF si = <<>> THEN w
    ELSE removeSector(reg, w, sid, typ, Head(si).ID,
                      Head(si).ID \in dropFail, Head(si).ID \in delFail)

\* the loop of Remove over the holders si
RECURSIVE RemoveHolders(_, _, _, _, _, _, _)
RemoveHolders(reg, w, sid, typ, si, dropFail, delFail) ==
    IF si = <<>> THEN w
    ELSE LET w2 == removeSector(reg, w, sid, typ, Head(si).ID,
                                Head(si).ID \in dropFail, Head(si).ID \in delFail)
         IN IF w2.err # ErrNone THEN w2
            ELSE RemoveHolders(reg, w2, sid, typ, Tail(si), dropFail, delFail)

\* the loop of RemoveCopies without the test of info.Primary
RemoveNonPrimary_NoSkip(reg, w, sid, typ, si, dropFail, delFail) ==
    RemoveHolders(reg, w, sid, typ, si, dropFail, delFail)

\* the loop of RemoveCopies over the holders si
RECURSIVE RemoveNonPrimary(_, _, _, _, _, _, _)
RemoveNonPrimary(reg, w, sid, typ, si, dropFail, delFail) ==
    IF si = <<>> THEN w
    ELSE IF Head(si).Primary
    THEN RemoveNonPrimary(reg, w, sid, typ, Tail(si), dropFail, delFail)
    ELSE LET w2 == removeSector(reg, w, sid, typ, Head(si).ID,
                                Head(si).ID \in dropFail, Head(si).ID \in delFail)
         IN IF w2.err # ErrNone THEN w2
            ELSE RemoveNonPrimary(reg, w2, sid, typ, Tail(si), dropFail, delFail)

\* Remove failing on an empty answer whatever force is
Remove_IgnoreForce(reg, d, dk, sid, typ, force, found, dropFail, delFail) ==
    IF OnesCount(typ) # 1 THEN [Work(d, dk) EXCEPT !.err = ErrOneType]
    ELSE IF found.err THEN [Work(d, dk) EXCEPT !.err = ErrFind]
    ELSE IF Len(found.list) = 0 THEN [Work(d, dk) EXCEPT !.err = ErrNotFound]
    ELSE RemoveHolders(reg, Work(d, dk), sid, typ, found.list, dropFail, delFail)

\* Remove under the index answer `found`; dropFail and delFail are the
\* storages whose StorageDropSector and os.RemoveAll fail
Remove(reg, d, dk, sid, typ, force, found, dropFail, delFail) ==
    IF OnesCount(typ) # 1 THEN [Work(d, dk) EXCEPT !.err = ErrOneType]
    ELSE IF found.err THEN [Work(d, dk) EXCEPT !.err = ErrFind]
    ELSE IF Len(found.list) = 0 /\ ~force THEN [Work(d, dk) EXCEPT !.err = ErrNotFound]
    ELSE RemoveHolders(reg, Work(d, dk), sid, typ, found.list, dropFail, delFail)

HasPrimary(si) == \E k \in 1..Len(si) : si[k].Primary

RemoveCopies(reg, d, dk, sid, typ, found, dropFail, delFail) ==
    IF OnesCount(typ) # 1 THEN [Work(d, dk) EXCEPT !.err = ErrOneType]
    ELSE IF found.err THEN [Work(d, dk) EXCEPT !.err = ErrFind]
    ELSE IF ~HasPrimary(found.list) THEN Work(d, dk)
    ELSE RemoveNonPrimary(reg, Work(d, dk), sid, typ, found.list, dropFail, delFail)

----------------------------------------------------------------------------
(* MoveStorage *)

NoFailure == [step |-> "none", typ |-> FTNone]

\* the one call of MoveStorage the environment makes fail (the first failure
\* ends the call)
MoveFailures(types) ==
    {NoFailure} \cup
    {[step |-> st, typ |-> t] :
        st \in {"StorageInfo src", "StorageInfo dest", "StorageDropSector", "move",
                "StorageDeclareSector"},
        t \in {u \in PathTypeSet : BitAnd(u, types) # 0}}

Fails(fail, step, fileType) == fail.step = step /\ fail.typ = fileType

\* move(from, to): the file leaves `from` and is at `to`; it cannot succeed
\* without a file at `from`
MoveCanSucceed(dk, from) == from \in dk
MoveFile(dk, from, to) == (dk \ {from}) \cup {to}

\* the skip without the test of the source's CanStore
SkipMove_SameStorageOnly(sst, dst) == sst.ID = dst.ID

\* a file type is not moved when source and destination are the same storage
\* or the source supports storage
SkipMove(sst, dst) == sst.ID = dst.ID \/ sst.CanStore

\* the body of MoveStorage's loop declaring the destination before the move
MoveOne_DeclareBeforeMove(st, w, s, fileType, dest, src, fail) ==
    LET srcID == PathByType(src.ids, fileType)
        dstID == PathByType(dest.ids, fileType)
        from == PathByType(src.out, fileType)
        to == PathByType(dest.out, fileType)
    IN IF ~StorageInfoKnown(st, srcID) \/ Fails(fail, "StorageInfo src", fileType)
       THEN [w EXCEPT !.err = ErrInfo]
       ELSE IF ~StorageInfoKnown(st, dstID) \/ Fails(fail, "StorageInfo dest", fileType)
       THEN [w EXCEPT !.err = ErrInfo]
       ELSE IF SkipMove(st[srcID], st[dstID]) THEN w
       ELSE IF Fails(fail, "StorageDropSector", fileType)
       THEN [w EXCEPT !.err = ErrDropSource,
                      !.log = Append(@, Effect("StorageDropSector", srcID, fileType, FALSE))]
       ELSE LET dropped ==
                    [w EXCEPT !.decls = StorageDropSector(@, srcID, s, fileType),
                              !.log = Append(@, Effect("StorageDropSector", srcID,
                                                       fileType, TRUE))]
            IN IF Fails(fail, "StorageDeclareSector", fileType)
               THEN [dropped EXCEPT !.err = ErrDeclare,
                                    !.log = Append(@, Effect("StorageDeclareSector",
                                                             dstID, fileType, FALSE))]
               ELSE LET declared ==
                            [dropped EXCEPT
                                !.decls = StorageDeclareSector(@, dstID, s, fileType, TRUE),
                                !.log = Append(@, Effect("StorageDeclareSector", dstID,
                                                         fileType, TRUE))]
                    IN IF Fails(fail, "move", fileType)
                          \/ ~MoveCanSucceed(declared.disk, from)
                       THEN [declared EXCEPT
                                !.err = ErrMove,
                                !.log = Append(@, Effect("move", dstID, fileType, FALSE))]
                       ELSE [declared EXCEPT
                                !.disk = MoveFile(@, from, to),
                                !.log = Append(@, Effect("move", dstID, fileType, TRUE))]

\* the body of MoveStorage's loop for one file type
MoveOne(st, w, s, fileType, dest, src, fail) ==
    LET srcID == PathByType(src.ids, fileType)
        dstID == PathByType(dest.ids, fileType)
        from == PathByType(src.out, fileType)
        to == PathByType(dest.out, fileType)
    IN IF ~StorageInfoKnown(st, srcID) \/ Fails(fail, "StorageInfo src", fileType)
       THEN [w EXCEPT !.err = ErrInfo]
       ELSE IF ~StorageInfoKnown(st, dstID) \/ Fails(fail, "StorageInfo dest", fileType)
       THEN [w EXCEPT !.err = ErrInfo]
       ELSE IF SkipMove(st[srcID], st[dstID]) THEN w
       ELSE IF Fails(fail, "StorageDropSector", fileType)
       THEN [w EXCEPT !.err = ErrDropSource,
                      !.log = Append(@, Effect("StorageDropSector", srcID, fileType, FALSE))]
       ELSE LET dropped ==
                    [w EXCEPT !.decls = StorageDropSector(@, srcID, s, fileType),
                              !.log = Append(@, Effect("StorageDropSector", srcID,
                                                       fileType, TRUE))]
            IN IF Fails(fail, "move", fileType) \/ ~MoveCanSucceed(dropped.disk, from)
               THEN [dropped EXCEPT !.err = ErrMove,
                                    !.log = Append(@, Effect("move", dstID, fileType, FALSE))]
               ELSE LET moved ==
                            [dropped EXCEPT !.disk = MoveFile(@, from, to),
                                            !.log = Append(@, Effect("move", dstID,
                                                                     fileType, TRUE))]
                    IN IF Fails(fail, "StorageDeclareSector", fileType)
                       THEN [moved EXCEPT !.err = ErrDeclare,
                                          !.log = Append(@, Effect("StorageDeclareSector",
                                                                   dstID, fileType, FALSE))]
                       ELSE [moved EXCEPT
                                !.decls = StorageDeclareSector(@, dstID, s, fileType, TRUE),
                                !.log = Append(@, Effect("StorageDeclareSector", dstID,
                                                         fileType, TRUE))]

\* MoveStorage's loop over the file types of `types`, from PathTypes[i] on
RECURSIVE MoveEach(_, _, _, _, _, _, _, _)
MoveEach(st, w, s, types, dest, src, fail, i) ==
    IF i > Len(PathTypes) THEN w
    ELSE IF BitAnd(PathTypes[i], types) = 0
    THEN MoveEach(st, w, s, types, dest, src, fail, i + 1)
    ELSE LET w2 == MoveOne(st, w, s, PathTypes[i], dest, src, fail)
         IN IF w2.err # ErrNone THEN w2
            ELSE MoveEach(st, w2, s, types, dest, src, fail, i + 1)

\* MoveStorage, given what its two AcquireSector calls returned
MoveStorage(st, d, dk, s, types, dest, src, fail) ==
    IF dest.err # ErrNone THEN [Work(d, dk) EXCEPT !.err = ErrAcquireDest]
    ELSE IF src.err # ErrNone THEN [Work(d, dk) EXCEPT !.err = ErrAcquireSrc]
    ELSE MoveEach(st, Work(d, dk), s, types, dest, src, fail, 1)

NoAnswers == [t \in PathTypeSet |-> Failure]

\* what the allocate loop reads of an answer: its error and its scan
AllocReading(reg, s, fileType, pathType, ans) ==
    [err |-> ans.err,
     b |-> BestOf(reg, s, fileType, pathType, ans.list, [best |-> "", bestID |-> ""])]

\* one answer for each reading the answers of StorageBestAlloc can give
AllocRepresentatives(reg, st, s, types, fileType, pathType) ==
    IF BitAnd(fileType, types) = 0 THEN {Failure}
    ELSE LET all == AllocAnswers(st)
             readings == {AllocReading(reg, s, fileType, pathType, a) : a \in all}
         IN {CHOOSE a \in all : AllocReading(reg, s, fileType, pathType, a) = r :
                r \in readings}

\* what AcquireSector(s, FTNone, types, false) can return
AcquireDestResultsOf(reg, st, s, types) ==
    {AcquireSector(reg, s, FTNone, types, PathStorage, NoAnswers, AnswersByType(u, v, c)) :
        u \in AllocRepresentatives(reg, st, s, types, FTUnsealed, PathStorage),
        v \in AllocRepresentatives(reg, st, s, types, FTSealed, PathStorage),
        c \in AllocRepresentatives(reg, st, s, types, FTCache, PathStorage)}

\* what AcquireSector(s, types, FTNone, false) can return, with the answers
\* of StorageFindSector it rests on
AcquireSrcResults(reg, d, s, types) ==
    {[findAns |-> fa,
      ret |-> AcquireSector(reg, s, types, FTNone, PathStorage, fa, NoAnswers)] :
        fa \in FindAnswerSets(d, s, types)}


----------------------------------------------------------------------------
(* Calls of Remove, RemoveCopies and MoveStorage on an opened store, one
   after the other *)

\* the store opened /p1../p4; r1 belongs to another process
OpenedIDs == {"s1", "s2", "s3", "s4"}
OpenedRegistry == RegistryOf(OpenedIDs)
OpenedStores == StoresOf(OpenedIDs \cup {"r1"})

\* the sector is sealed: its sealed file and its cache have copies
HeldTypes == {FTSealed, FTCache}

\* the subsets of S of at most n elements
RECURSIVE SubsetsUpTo(_, _)
SubsetsUpTo(S, n) ==
    IF n = 0 THEN {{}}
    ELSE LET smaller == SubsetsUpTo(S, n - 1)
         IN smaller \cup {t \cup {x} : t \in smaller, x \in S}

\* the index's declarations name a storage once per sector and file type
InitialDecls ==
    {d \in SubsetsUpTo({Decl(SectorA, t, id, pr) :
                           t \in HeldTypes, id \in DOMAIN OpenedStores, pr \in BOOLEAN},
                       MaxHolders) :
        \A x, y \in d : (x.typ = y.typ /\ x.storage = y.storage) => x = y}

Init ==
    /\ paths = OpenedRegistry
    /\ stores = OpenedStores
    /\ decls \in InitialDecls
    /\ disk = FilesOf(paths, decls)
    /\ last = NoCall
    /\ NoCallers
    /\ NoLocking
    /\ boot = Booted

Ids(si) == {si[k].ID : k \in 1..Len(si)}

RemoveCall ==
    /\ last = NoCall
    /\ \E sid \in {SectorA}, typ \in FileTypeSets, force \in BOOLEAN :
      \E found \in FindAnswers(decls, sid, typ) :
        \E dropFail \in {{}} \cup {{id} : id \in Ids(found.list)},
           delFail \in SUBSET Ids(found.list) :
          LET w == Remove(paths, decls, disk, sid, typ, force, found, dropFail, delFail)
          IN /\ decls' = w.decls
             /\ disk' = w.disk
             /\ last' = [op |-> "Remove", sid |-> sid, typ |-> typ, force |-> force,
                         found |-> found, err |-> w.err, log |-> w.log,
                         pre |-> [decls |-> decls, disk |-> disk]]
             /\ UNCHANGED <<paths, stores, concVars, boot, lockVars>>

RemoveCopiesCall ==
    /\ last = NoCall
    /\ \E sid \in {SectorA}, typ \in FileTypeSets :
      \E found \in FindAnswers(decls, sid, typ) :
        \E dropFail \in {{}} \cup {{id} : id \in Ids(found.list)},
           delFail \in SUBSET Ids(found.list) :
          LET w == RemoveCopies(paths, decls, disk, sid, typ, found, dropFail, delFail)
          IN /\ decls' = w.decls
             /\ disk' = w.disk
             /\ last' = [op |-> "RemoveCopies", sid |-> sid, typ |-> typ,
                         found |-> found, err |-> w.err, log |-> w.log,
                         pre |-> [decls |-> decls, disk |-> disk]]
             /\ UNCHANGED <<paths, stores, concVars, boot, lockVars>>

\* the registry and the storage table do not change once the store is opened:
\* the destinations AcquireSector can return are tabulated once
OpenedDestResults ==
    [types \in FileTypeSets |->
        AcquireDestResultsOf(OpenedRegistry, OpenedStores, SectorA, types)]

AcquireDestResults(reg, st, s, types) ==
    IF reg = OpenedRegistry /\ st = OpenedStores /\ s = SectorA
    THEN OpenedDestResults[types]
    ELSE AcquireDestResultsOf(reg, st, s, types)

MoveStorageCall ==
    /\ last = NoCall
    /\ \E sid \in {SectorA}, types \in FileTypeSets :
      \E dest \in AcquireDestResults(paths, stores, sid, types),
         src \in {x.ret : x \in AcquireSrcResults(paths, decls, sid, types)},
         fail \in MoveFailures(types) :
          LET w == MoveStorage(stores, decls, disk, sid, types, dest, src, fail)
          IN /\ decls' = w.decls
             /\ disk' = w.disk
             /\ last' = [op |-> "MoveStorage", sid |-> sid, types |-> types,
                         dest |-> dest, src |-> src, err |-> w.err, log |-> w.log]
             /\ UNCHANGED <<paths, stores, concVars, boot, lockVars>>

\* the caller has the result of the call; the next call can start
Return ==
    /\ last # NoCall
    /\ last' = NoCall
    /\ UNCHANGED <<paths, stores, decls, disk, concVars, boot, lockVars>>

Next == RemoveCall \/ RemoveCopiesCall \/ MoveStorageCall \/ Return

Spec == Init /\ [][Next]_vars

\* every result MoveStorage(s, types) can have in the state (d, dk)
MoveOutcomes(reg, st, d, dk, s, types) ==
    {[dest |-> dest, src |-> src.ret, findAns |-> src.findAns, fail |-> fail,
      w |-> MoveStorage(st, d, dk, s, types, dest, src.ret, fail)] :
        dest \in AcquireDestResults(reg, st, s, types),
        src \in AcquireSrcResults(reg, d, s, types),
        fail \in MoveFailures(types)}


----------------------------------------------------------------------------
(* Claims about Remove and RemoveCopies *)

\* the call asked about one file type and StorageFindSector answered
RemovalAnswered(op) ==
    /\ last.op = op
    /\ \E i \in 0..2 : last.typ = 2 ^ i
    /\ ~last.found.err

Reported == {last.found.list[k] : k \in 1..Len(last.found.list)}

\* the storages the call dropped from the index or whose file it deleted,
\* or tried to
Touched == {last.log[k].storage : k \in 1..Len(last.log)}

Registered(id) == id \in DOMAIN paths /\ paths[id] # ""

HoldersNow == {[ID |-> x.storage, Primary |-> x.primary] :
                  x \in Holders(decls, last.sid, last.typ)}

HoldersBefore == {[ID |-> x.storage, Primary |-> x.primary] :
                     x \in Holders(last.pre.decls, last.sid, last.typ)}

\* C4: RemoveCopies neither drops from the index nor deletes the file of a
\* holder the index marks primary; with no primary holder reported it drops
\* nothing, deletes nothing and returns success
C4_PrimaryNeverRemoved ==
    RemovalAnswered("RemoveCopies") =>
        /\ \A h \in Reported :
              h.Primary =>
                  /\ h.ID \notin Touched
                  /\ h \in HoldersNow
                  /\ (Registered(h.ID)
                        /\ SectorPath(paths[h.ID], last.typ, last.sid) \in last.pre.disk)
                        => SectorPath(paths[h.ID], last.typ, last.sid) \in disk
        /\ (\A h \in Reported : ~h.Primary) =>
              /\ last.log = <<>>
              /\ last.err = ErrNone
              /\ decls = last.pre.decls
              /\ disk = last.pre.disk

C4_Witness ==
    /\ RemovalAnswered("RemoveCopies")
    /\ last.err = ErrNone
    /\ \E h \in Reported : h.Primary /\ Registered(h.ID)
    /\ \E h \in Reported : ~h.Primary /\ h.ID \in Touched
    /\ disk # last.pre.disk

\* C5 as stated: after a successful RemoveCopies with a primary holder
\* reported, the index reports only primary holders
C5_AsStated ==
    (RemovalAnswered("RemoveCopies") /\ last.err = ErrNone
        /\ \E h \in Reported : h.Primary) =>
        \A h \in HoldersNow : h.Primary

\* C5: after a successful RemoveCopies with a primary holder
\* reported, every non-primary holder on a storage of the registry (with a
\* non-empty root) is removed: the index reports the primary holders and the
\* non-primary holders on storages the registry does not know, and no other
C5_LocalCopiesRemoved ==
    (RemovalAnswered("RemoveCopies") /\ last.err = ErrNone
        /\ \E h \in Reported : h.Primary) =>
        HoldersNow = {h \in Reported : h.Primary \/ ~Registered(h.ID)}

C5_Witness ==
    /\ RemovalAnswered("RemoveCopies")
    /\ last.err = ErrNone
    /\ \E h \in Reported : h.Primary
    /\ \E h \in Reported : ~h.Primary /\ Registered(h.ID) /\ h \notin HoldersNow
    /\ Cardinality(HoldersNow) = 1

\* C6: Remove of a pair with no holder reported: with force it returns
\* success and drops and deletes nothing; without force it fails with
\* SectorNotFound and changes nothing
C6_RemoveNothingHeld ==
    (RemovalAnswered("Remove") /\ Reported = {}) =>
        /\ last.log = <<>>
        /\ decls = last.pre.decls
        /\ disk = last.pre.disk
        /\ last.err = (IF last.force THEN ErrNone ELSE ErrNotFound)

C6_Witness ==
    /\ RemovalAnswered("Remove")
    /\ Reported = {}
    /\ last.force
    /\ last.err = ErrNone
    /\ disk # {}

\* what a Remove(sid, typ, force=false) issued now returns, for every answer
\* StorageFindSector can give it
NextRemoveErrors ==
    {Remove(paths, decls, disk, last.sid, last.typ, FALSE, a, {}, {}).err :
        a \in {b \in FindAnswers(decls, last.sid, last.typ) : ~b.err}}

\* C7 as stated: after a successful Remove(force=false) the index reports no
\* holder of the pair, and the next Remove(force=false) fails with
\* SectorNotFound
C7_AsStated ==
    (RemovalAnswered("Remove") /\ ~last.force /\ last.err = ErrNone) =>
        /\ HoldersNow = {}
        /\ NextRemoveErrors = {ErrNotFound}

\* C7: after a successful Remove(force=false) every reported holder
\* on a storage of the registry (with a non-empty root) is dropped from the
\* index, the holders on storages the registry does not know stay; when all
\* reported holders were on storages of the registry the index reports no
\* holder and the next Remove(force=false) fails with SectorNotFound
C7_LocalHoldersDropped ==
    (RemovalAnswered("Remove") /\ ~last.force /\ last.err = ErrNone) =>
        /\ HoldersNow = {h \in Reported : ~Registered(h.ID)}
        /\ (\A h \in Reported : Registered(h.ID)) =>
              /\ HoldersNow = {}
              /\ NextRemoveErrors = {ErrNotFound}

C7_Witness ==
    /\ RemovalAnswered("Remove")
    /\ ~last.force
    /\ last.err = ErrNone
    /\ Cardinality(Reported) = 2
    /\ \A h \in Reported : Registered(h.ID)
    /\ HoldersNow = {}
    /\ NextRemoveErrors = {ErrNotFound}

----------------------------------------------------------------------------
(* Claims about MoveStorage *)

\* the storage the last call moved fileType to, if it moved it
MovedTo(fileType) ==
    {last.log[k].storage : k \in {j \in 1..Len(last.log) :
        last.log[j] = Effect("move", last.log[j].storage, fileType, TRUE)}}

\* a successful MoveStorage moved fileType to a holder with CanStore
MovedToStore(fileType) ==
    /\ last.op = "MoveStorage"
    /\ last.err = ErrNone
    /\ InSet(fileType, last.types)
    /\ MovedTo(fileType) # {}
    /\ \A id \in MovedTo(fileType) :
          /\ stores[id].CanStore
          /\ Decl(last.sid, fileType, id, TRUE) \in decls

\* the second call's index calls all succeed and a destination is found
Undisturbed(r) ==
    /\ r.fail = NoFailure
    /\ r.dest.err = ErrNone
    /\ \A t \in PathTypeSet : InSet(t, last.types) => ~r.findAns[t].err

NoStepFor(w, fileType) == \A k \in 1..Len(w.log) : w.log[k].typ # fileType

\* the same call again, in the state the last call left
SecondMove == MoveOutcomes(paths, stores, decls, disk, last.sid, last.types)

\* a holder of fileType on a storage of the registry without CanStore
ScratchHolders(fileType) ==
    {x \in Holders(decls, last.sid, fileType) :
        Registered(x.storage) /\ ~stores[x.storage].CanStore}

----------------------------------------------------------------------------
(* The order of the steps inside one call *)

\* the steps the last call took for fileType, in order
StepsFor(fileType) == SelectSeq(last.log, LAMBDA e : e.typ = fileType)

\* the index holds no declaration of the sector's fileType at storage
NotDeclaredAt(storage, fileType) ==
    \A x \in decls : ~(x.sector = last.sid /\ x.typ = fileType /\ x.storage = storage)

\* MoveStorage passes fileType over: both storages are known to the index and
\* they are the same or the source has CanStore
PassedOver(fileType) ==
    LET s == last.src.ids[fileType]
        d == last.dest.ids[fileType]
    IN /\ s \in DOMAIN stores
       /\ d \in DOMAIN stores
       /\ (s = d \/ stores[s].CanStore)

\* C14: in one MoveStorage call the steps of a file type are, in this order,
\* the drop of the source from the index, the move and the declaration of
\* the destination as primary, ending at the first that fails; a failed move
\* leaves the source dropped and the destination undeclared by the call; a
\* file type whose source and destination are the same storage or whose
\* source has CanStore has no step at all
C14_DropMoveDeclare ==
    last.op = "MoveStorage" =>
        \A t \in PathTypeSet :
            LET l == StepsFor(t)
                s == last.src.ids[t]
                d == last.dest.ids[t]
                drop(ok) == Effect("StorageDropSector", s, t, ok)
                move(ok) == Effect("move", d, t, ok)
                declare(ok) == Effect("StorageDeclareSector", d, t, ok)
            IN /\ \/ l = <<>>
                  \/ l = <<drop(FALSE)>> /\ last.err = ErrDropSource
                  \/ /\ l = <<drop(TRUE), move(FALSE)>>
                     /\ last.err = ErrMove
                     /\ NotDeclaredAt(s, t)
                  \/ l = <<drop(TRUE), move(TRUE), declare(FALSE)>> /\ last.err = ErrDeclare
                  \/ /\ l = <<drop(TRUE), move(TRUE), declare(TRUE)>>
                     /\ Decl(last.sid, t, d, TRUE) \in decls
                     /\ last.dest.out[t] \in disk
               /\ (l # <<>>) => (InSet(t, last.types) /\ ~PassedOver(t))
               /\ (last.err = ErrNone /\ InSet(t, last.types) /\ ~PassedOver(t)) =>
                     Len(l) = 3

\* a MoveStorage of two file types moved the first and failed in the move of
\* the second
C14_Witness ==
    /\ last.op = "MoveStorage"
    /\ last.types = FTSealed + FTCache
    /\ Len(StepsFor(FTSealed)) = 3
    /\ Len(StepsFor(FTCache)) = 2
    /\ last.err = ErrMove

\* the holders the loop of the last removal calls removeSector for and that
\* removeSector does not pass over, in the order of the index's answer
RemovalTargets ==
    SelectSeq(last.found.list,
              LAMBDA h : Registered(h.ID) /\ (last.op = "Remove" \/ ~h.Primary))

\* the removal reached its loop
LoopReached(op) ==
    /\ RemovalAnswered(op)
    /\ op = "Remove" => (Len(last.found.list) > 0 \/ last.force)
    /\ op = "RemoveCopies" => HasPrimary(last.found.list)

\* the steps of a removal whose first n targets are gone through: a drop and
\* a deletion for each, and deletions fail where the log says so
RECURSIVE StepsOfTargets(_, _)
StepsOfTargets(targets, log) ==
    IF targets = <<>> \/ log = <<>> THEN log = <<>>
    ELSE /\ log[1].op = "StorageDropSector"
         /\ log[1].storage = Head(targets).ID
         /\ IF log[1].ok
            THEN /\ Len(log) >= 2
                 /\ log[2].op = "RemoveAll"
                 /\ log[2].storage = Head(targets).ID
                 /\ StepsOfTargets(Tail(targets), SubSeq(log, 3, Len(log)))
            ELSE Len(log) = 1

FirstFailedDrop ==
    {k \in 1..Len(last.log) : last.log[k].op = "StorageDropSector" /\ ~last.log[k].ok}

\* C15: in Remove and RemoveCopies each holder is dropped from the index
\* before its file is deleted; a failing drop is returned, the file of that
\* holder stays and no later holder is gone through; a failing deletion is
\* not returned and the later holders are gone through
C15_DropThenDelete ==
    \A op \in {"Remove", "RemoveCopies"} :
        LoopReached(op) =>
            /\ StepsOfTargets(RemovalTargets, last.log)
            /\ IF FirstFailedDrop = {}
               THEN /\ last.err = ErrNone
                    /\ Len(last.log) = 2 * Len(RemovalTargets)
               ELSE /\ last.err = ErrDrop
                    /\ \A k \in FirstFailedDrop :
                          /\ k = Len(last.log)
                          /\ LET p == SectorPath(paths[last.log[k].storage], last.typ,
                                                 last.sid)
                             IN p \in last.pre.disk => p \in disk
            /\ \A k \in 1..Len(last.log) :
                  (last.log[k].op = "RemoveAll" /\ last.log[k].ok) =>
                      SectorPath(paths[last.log[k].storage], last.typ, last.sid) \notin disk

\* a Remove of two holders: the deletion of the first failed, the second was
\* dropped and deleted, and the call succeeded
C15_Witness ==
    /\ LoopReached("Remove")
    /\ Len(RemovalTargets) = 2
    /\ Len(last.log) = 4
    /\ ~last.log[2].ok
    /\ last.log[4].ok
    /\ last.err = ErrNone

----------------------------------------------------------------------------
(* Calls of Remove, RemoveCopies and MoveStorage in progress at the same
   time: every call a caller makes on the index or the filesystem is a step
   of its own, and the steps of different callers interleave *)

\* the file types the interleaved calls are made on
ConcTypes == {FTSealed}

ConcDecls == {d \in InitialDecls : \A x \in d : x.typ \in ConcTypes}

InitConc ==
    /\ paths = OpenedRegistry
    /\ stores = OpenedStores
    /\ decls \in ConcDecls
    /\ disk = FilesOf(paths, decls)
    /\ last = NoCall
    /\ NoCallers
    /\ NoLocking
    /\ boot = Booted

IsRemoval(c) == c.op \in {"Remove", "RemoveCopies"}
IsMove(c) == c.op = "MoveStorage"

\* a removal and a MoveStorage of the same file type are in progress
Overlapping(ps) ==
    \E p, q \in Procs :
        /\ IsRemoval(ps[p])
        /\ IsMove(ps[q])
        /\ BitAnd(ps[p].typ, ps[q].typ) # 0

\* caller p goes on as c
Becomes(p, c) ==
    /\ procs' = [procs EXCEPT ![p] = c]
    /\ overlap' = (overlap \/ Overlapping(procs'))

\* callers are alike: a call starts on the first idle one
Starts(p, c) ==
    /\ procs[p] = Idle
    /\ \A q \in Procs : q < p => procs[q] # Idle
    /\ ncalls < MaxCalls
    /\ ncalls' = ncalls + 1
    /\ Becomes(p, c)

\* the holders Remove's loop goes through, none when the call returns before
RemoveTargets(typ, force, found) ==
    IF OnesCount(typ) # 1 THEN <<>>
    ELSE IF found.err THEN <<>>
    ELSE IF Len(found.list) = 0 /\ ~force THEN <<>>
    ELSE found.list

\* the holders RemoveCopies' loop calls removeSector for
RemoveCopiesTargets(typ, found) ==
    IF OnesCount(typ) # 1 THEN <<>>
    ELSE IF found.err THEN <<>>
    ELSE IF ~HasPrimary(found.list) THEN <<>>
    ELSE SelectSeq(found.list, LAMBDA h : ~h.Primary)

\* the loop of a removal goes on with the holders si
RemovalLoop(op, typ, si) ==
    IF si = <<>> THEN Idle
    ELSE [op |-> op, pc |-> "StorageDropSector", typ |-> typ, si |-> si]

\* Remove up to the answer of StorageFindSector
StartRemove(p) ==
    \E typ \in ConcTypes, force \in BOOLEAN :
        \E found \in FindAnswers(decls, SectorA, typ) :
            /\ Starts(p, RemovalLoop("Remove", typ, RemoveTargets(typ, force, found)))
            /\ UNCHANGED <<paths, stores, decls, disk, last, boot, lockVars>>

\* RemoveCopies up to the answer of StorageFindSector
StartRemoveCopies(p) ==
    \E typ \in ConcTypes :
        \E found \in FindAnswers(decls, SectorA, typ) :
            /\ Starts(p, RemovalLoop("RemoveCopies", typ, RemoveCopiesTargets(typ, found)))
            /\ UNCHANGED <<paths, stores, decls, disk, last, boot, lockVars>>

\* removeSector up to StorageDropSector: a storage that is not registered is
\* passed over, a failing drop ends the call
RemoveDrop(p) ==
    LET c == procs[p]
        storage == Head(c.si).ID
    IN /\ IsRemoval(c)
       /\ c.pc = "StorageDropSector"
       /\ IF storage \notin DOMAIN paths \/ paths[storage] = ""
          THEN /\ Becomes(p, RemovalLoop(c.op, c.typ, Tail(c.si)))
               /\ UNCHANGED decls
          ELSE \E dropFails \in BOOLEAN :
                  IF dropFails
                  THEN Becomes(p, Idle) /\ UNCHANGED decls
                  ELSE /\ decls' = StorageDropSector(decls, storage, SectorA, c.typ)
                       /\ Becomes(p, [c EXCEPT !.pc = "RemoveAll"])
       /\ UNCHANGED <<paths, stores, disk, last, ncalls, boot, lockVars>>

\* removeSector's os.RemoveAll; its error is logged and the loop goes on
RemoveDelete(p) ==
    LET c == procs[p]
        storage == Head(c.si).ID
    IN /\ IsRemoval(c)
       /\ c.pc = "RemoveAll"
       /\ \E delFails \in BOOLEAN :
             disk' = IF delFails THEN disk
                     ELSE disk \ {SectorPath(paths[storage], c.typ, SectorA)}
       /\ Becomes(p, RemovalLoop(c.op, c.typ, Tail(c.si)))
       /\ UNCHANGED <<paths, stores, decls, last, ncalls, boot, lockVars>>

\* the first file type of `types` from PathTypes[i] on, Len(PathTypes) + 1
\* when there is none
RECURSIVE NextTypeFrom(_, _)
NextTypeFrom(types, i) ==
    IF i > Len(PathTypes) THEN i
    ELSE IF BitAnd(PathTypes[i], types) # 0 THEN i
    ELSE NextTypeFrom(types, i + 1)

\* the order of MoveStorage's calls with the destination declared before the
\* file is moved
MoveStepAfter_DeclareBeforeMove(step) ==
    CASE step = "StorageInfo" -> "StorageDropSector"
      [] step = "StorageDropSector" -> "StorageDeclareSector"
      [] step = "StorageDeclareSector" -> "move"
      [] step = "move" -> "StorageInfo"

\* the order of MoveStorage's calls for one file type; after the last the
\* loop goes to the next file type
MoveStepAfter(step) ==
    CASE step = "StorageInfo" -> "StorageDropSector"
      [] step = "StorageDropSector" -> "move"
      [] step = "move" -> "StorageDeclareSector"
      [] step = "StorageDeclareSector" -> "StorageInfo"

\* MoveStorage's loop goes on at PathTypes[i]
MoveLoop(c, i) ==
    IF NextTypeFrom(c.typ, i) > Len(PathTypes) THEN Idle
    ELSE [c EXCEPT !.pc = "StorageInfo", !.i = NextTypeFrom(c.typ, i)]

\* MoveStorage goes on after `step` succeeded
MoveGoesOn(c, step) ==
    IF MoveStepAfter(step) = "StorageInfo" THEN MoveLoop(c, c.i + 1)
    ELSE [c EXCEPT !.pc = MoveStepAfter(step)]

\* MoveStorage up to the return of AcquireSector for the destination
StartMove(p) ==
    \E types \in ConcTypes :
        \E dest \in AcquireDestResults(paths, stores, SectorA, types) :
            /\ Starts(p, IF dest.err # ErrNone THEN Idle
                         ELSE [op |-> "MoveStorage", pc |-> "AcquireSector", typ |-> types,
                               dest |-> dest, src |-> dest, i |-> 1])
            /\ UNCHANGED <<paths, stores, decls, disk, last, boot, lockVars>>

\* AcquireSector for the source
MoveAcquireSrc(p) ==
    LET c == procs[p]
    IN /\ IsMove(c)
       /\ c.pc = "AcquireSector"
       /\ \E src \in {x.ret : x \in AcquireSrcResults(paths, decls, SectorA, c.typ)} :
             Becomes(p, IF src.err # ErrNone THEN Idle
                        ELSE MoveLoop([c EXCEPT !.src = src], 1))
       /\ UNCHANGED <<paths, stores, decls, disk, last, ncalls, boot, lockVars>>

\* the two StorageInfo calls and the tests that pass a file type over
MoveInfo(p) ==
    LET c == procs[p]
        t == PathTypes[c.i]
        srcID == PathByType(c.src.ids, t)
        dstID == PathByType(c.dest.ids, t)
    IN /\ IsMove(c)
       /\ c.pc = "StorageInfo"
       /\ \E infoFails \in BOOLEAN :
             Becomes(p, IF infoFails \/ ~StorageInfoKnown(stores, srcID)
                           \/ ~StorageInfoKnown(stores, dstID)
                        THEN Idle
                        ELSE IF SkipMove(stores[srcID], stores[dstID])
                        THEN MoveLoop(c, c.i + 1)
                        ELSE MoveGoesOn(c, "StorageInfo"))
       /\ UNCHANGED <<paths, stores, decls, disk, last, ncalls, boot, lockVars>>

\* StorageDropSector of the source
MoveDrop(p) ==
    LET c == procs[p]
        t == PathTypes[c.i]
    IN /\ IsMove(c)
       /\ c.pc = "StorageDropSector"
       /\ \E dropFails \in BOOLEAN :
             IF dropFails
             THEN Becomes(p, Idle) /\ UNCHANGED decls
             ELSE /\ decls' = StorageDropSector(decls, PathByType(c.src.ids, t), SectorA, t)
                  /\ Becomes(p, MoveGoesOn(c, "StorageDropSector"))
       /\ UNCHANGED <<paths, stores, disk, last, ncalls, boot, lockVars>>

\* move(source path, destination path)
MoveMove(p) ==
    LET c == procs[p]
        t == PathTypes[c.i]
        from == PathByType(c.src.out, t)
        to == PathByType(c.dest.out, t)
    IN /\ IsMove(c)
       /\ c.pc = "move"
       /\ \E moveFails \in BOOLEAN :
             IF moveFails \/ ~MoveCanSucceed(disk, from)
             THEN Becomes(p, Idle) /\ UNCHANGED disk
             ELSE /\ disk' = MoveFile(disk, from, to)
                  /\ Becomes(p, MoveGoesOn(c, "move"))
       /\ UNCHANGED <<paths, stores, decls, last, ncalls, boot, lockVars>>

\* StorageDeclareSector of the destination, as primary
MoveDeclare(p) ==
    LET c == procs[p]
        t == PathTypes[c.i]
    IN /\ IsMove(c)
       /\ c.pc = "StorageDeclareSector"
       /\ \E declareFails \in BOOLEAN :
             IF declareFails
             THEN Becomes(p, Idle) /\ UNCHANGED decls
             ELSE /\ decls' = StorageDeclareSector(decls, PathByType(c.dest.ids, t),
                                                   SectorA, t, TRUE)
                  /\ Becomes(p, MoveGoesOn(c, "StorageDeclareSector"))
       /\ UNCHANGED <<paths, stores, disk, last, ncalls, boot, lockVars>>

NextConc ==
    \E p \in Procs :
        \/ StartRemove(p)
        \/ StartRemoveCopies(p)
        \/ RemoveDrop(p)
        \/ RemoveDelete(p)
        \/ StartMove(p)
        \/ MoveAcquireSrc(p)
        \/ MoveInfo(p)
        \/ MoveDrop(p)
        \/ MoveMove(p)
        \/ MoveDeclare(p)

SpecConc == InitConc /\ [][NextConc]_vars

----------------------------------------------------------------------------
(* The index and the disk under interleaved calls *)

\* every file the index reports on a registered storage is on the disk
IndexOnDisk ==
    \A x \in decls :
        Registered(x.storage) =>
            SectorPath(paths[x.storage], x.typ, x.sector) \in disk

\* C1 as stated: under any interleaving of Remove, RemoveCopies and
\* MoveStorage the index reports no file of a registered storage that is not
\* on the disk
C1_AsStated == IndexOnDisk

\* C1: under any interleaving of Remove, RemoveCopies and MoveStorage in
\* which no Remove or RemoveCopies was in progress together with a
\* MoveStorage of the same sector and file type, the index reports no file of
\* a registered storage that is not on the disk
C1_IndexOnDiskWithoutRemoveMoveOverlap == ~overlap => IndexOnDisk

\* two MoveStorage calls of the same sector and file type are in progress,
\* one past its move, the other past its drop
C1_Witness ==
    /\ ~overlap
    /\ \E p, q \in Procs :
          /\ IsMove(procs[p]) /\ procs[p].pc = "StorageDeclareSector"
          /\ IsMove(procs[q]) /\ procs[q].pc = "move"
          /\ procs[p].typ = procs[q].typ

----------------------------------------------------------------------------
(* NewLocal, open, OpenPath *)

ErrGetStorage == "getting local storage config"
ErrDescriptor == "reading storage metadata"
ErrStat == "stat"
ErrAttach == "declaring storage in index"
ErrMkdir == "openPath mkdir"
ErrListing == "listing"
ErrParse == "parse sector id"
ErrOpenDeclare == "declare sector"

\* the directories a configuration can list: /p1 and /p2 hold the
\* descriptors of s1 and s2, /p2b holds a descriptor with the ID s2 as well,
\* /bad holds none
Roots == {"/p1", "/p2", "/p2b", "/bad"}

HasDescriptor(p) == p # "/bad"

\* the LocalStorageMeta of sectorstore.json in p
DescriptorAt(p) ==
    IF p = "/p2b" THEN MetaOf("s2")
    ELSE MetaOf(CHOOSE id \in StorageIDs : RootOf(id) = p)

\* the names ReadDir can return, in the order it returns them (by name)
EntryNames == <<SectorName(SectorA), SectorName(SectorB), "x">>

\* ParseSectorID: the sector a name of the form s-t0<miner>-<number> stands
\* for
Parses(name) == \E sid \in SectorIDs : SectorName(sid) = name
ParseSectorID(name) == CHOOSE sid \in SectorIDs : SectorName(sid) = name

\* ioutil.ReadDir(filepath.Join(p, t.String())): the entries, sorted by name
ReadDir(dk, p, t) ==
    SelectSeq(EntryNames, LAMBDA n : JoinPath(p, FileTypeString(t), n) \in dk)

NoOpenFailure == [step |-> "none", typ |-> FTNone, ent |-> ""]

\* the one step of an OpenPath the environment makes fail
OpenFailures ==
    {NoOpenFailure}
    \cup {[step |-> st, typ |-> FTNone, ent |-> ""] :
            st \in {"ReadFile", "Stat", "StorageAttach"}}
    \cup {[step |-> st, typ |-> t, ent |-> ""] :
            st \in {"ReadDir", "MkdirAll"}, t \in PathTypeSet}
    \cup {[step |-> "StorageDeclareSector", typ |-> t, ent |-> EntryNames[k]] :
            t \in PathTypeSet, k \in 1..Len(EntryNames)}

\* StorageAttach: the index's table holds the storage's info
StorageAttach(st, info) ==
    [id \in DOMAIN st \cup {info.ID} |-> IF id = info.ID THEN info ELSE st[id]]

\* what OpenPath works on: the registry, the index's storages and
\* declarations, and the error to return
OpenWork(reg, st, d) == [paths |-> reg, stores |-> st, decls |-> d, err |-> ErrNone]

\* the loop over the entries of one type directory
RECURSIVE OpenEntries(_, _, _, _, _)
OpenEntries(w, meta, t, ents, fail) ==
    IF ents = <<>> \/ w.err # ErrNone THEN w
    ELSE IF ~Parses(Head(ents)) THEN [w EXCEPT !.err = ErrParse]
    ELSE IF fail.step = "StorageDeclareSector" /\ fail.typ = t /\ fail.ent = Head(ents)
    THEN [w EXCEPT !.err = ErrOpenDeclare]
    ELSE OpenEntries(
            [w EXCEPT !.decls = StorageDeclareSector(@, meta.ID, ParseSectorID(Head(ents)),
                                                     t, meta.CanStore)],
            meta, t, Tail(ents), fail)

\* the loop over PathTypes, from PathTypes[i] on; a directory without
\* entries may be absent, and is then made
RECURSIVE OpenTypes(_, _, _, _, _, _)
OpenTypes(w, dk, p, meta, fail, i) ==
    IF i > Len(PathTypes) \/ w.err # ErrNone THEN w
    ELSE LET t == PathTypes[i]
             ents == ReadDir(dk, p, t)
         IN IF fail.step = "ReadDir" /\ fail.typ = t
            THEN [w EXCEPT !.err = ErrListing]
            ELSE IF fail.step = "MkdirAll" /\ fail.typ = t /\ ents = <<>>
            THEN [w EXCEPT !.err = ErrMkdir]
            ELSE OpenTypes(OpenEntries(w, meta, t, ents, fail), dk, p, meta, fail, i + 1)

\* OpenPath(p), the whole of it under the write lock
OpenPath(reg, st, d, dk, p, fail) ==
    LET w == OpenWork(reg, st, d)
        meta == DescriptorAt(p)
    IN IF ~HasDescriptor(p) \/ fail.step = "ReadFile" THEN [w EXCEPT !.err = ErrDescriptor]
       ELSE IF fail.step = "Stat" THEN [w EXCEPT !.err = ErrStat]
       ELSE IF fail.step = "StorageAttach" THEN [w EXCEPT !.err = ErrAttach]
       ELSE LET scanned == OpenTypes([w EXCEPT !.stores = StorageAttach(@, meta)],
                                     dk, p, meta, fail, 1)
            IN IF scanned.err # ErrNone THEN scanned
               ELSE [scanned EXCEPT
                        !.paths = [id \in DOMAIN reg \cup {meta.ID} |->
                                      IF id = meta.ID THEN p ELSE reg[id]]]

\* open's loop going on to the next path whatever OpenPath returned
OpenLoop_IgnoreError(b, err) == [b EXCEPT !.next = @ + 1]

\* open's loop after OpenPath returned err for the path boot.next
OpenLoop(b, err) ==
    IF err # ErrNone THEN [b EXCEPT !.state = "failed", !.err = err]
    ELSE [b EXCEPT !.next = @ + 1]

\* the index before the store starts: another process attached r1
IndexBefore == StoresOf({"r1"})

\* the configurations: up to MaxPaths directories, in any order
Configs == SeqsUpTo(Roots, MaxPaths)

\* the entries the directories with a descriptor may hold
OpenFiles ==
    {JoinPath(p, FileTypeString(t), n) :
        p \in {"/p1", "/p2"}, t \in {FTSealed, FTCache}, n \in {SectorName(SectorA), "x"}}

InitOpen ==
    /\ paths = RegistryOf({})
    /\ stores = IndexBefore
    /\ decls = {}
    /\ disk \in SubsetsUpTo(OpenFiles, MaxFiles)
    /\ last = NoCall
    /\ NoCallers
    /\ NoLocking
    /\ \E cfg \in Configs :
          boot = [state |-> "new", cfg |-> cfg, next |-> 1, err |-> ErrNone,
                  health |-> FALSE]

\* NewLocal up to the return of GetStorage
GetStorage ==
    /\ boot.state = "new"
    /\ \E fails \in BOOLEAN :
          boot' = IF fails THEN [boot EXCEPT !.state = "failed", !.err = ErrGetStorage,
                                             !.next = 0]
                  ELSE [boot EXCEPT !.state = "opening"]
    /\ UNCHANGED <<paths, stores, decls, disk, last, concVars, lockVars>>

\* one turn of open's loop
OpenNext ==
    /\ boot.state = "opening"
    /\ boot.next <= Len(boot.cfg)
    /\ \E fail \in OpenFailures :
          LET w == OpenPath(paths, stores, decls, disk, boot.cfg[boot.next], fail)
          IN /\ paths' = w.paths
             /\ stores' = w.stores
             /\ decls' = w.decls
             /\ boot' = OpenLoop(boot, w.err)
    /\ UNCHANGED <<disk, last, concVars, lockVars>>

\* the end of open: the health reporter is started and nil returned
OpenDone ==
    /\ boot.state = "opening"
    /\ boot.next > Len(boot.cfg)
    /\ boot' = [boot EXCEPT !.state = "ok", !.health = TRUE]
    /\ UNCHANGED <<paths, stores, decls, disk, last, concVars, lockVars>>

NextOpen == GetStorage \/ OpenNext \/ OpenDone

SpecOpen == InitOpen /\ [][NextOpen]_vars

----------------------------------------------------------------------------
(* Startup *)

\* the StorageIDs of the descriptors of the first n configured paths
ConfiguredIDs(n) ==
    {DescriptorAt(boot.cfg[k]).ID :
        k \in {j \in 1..Len(boot.cfg) : j <= n /\ HasDescriptor(boot.cfg[j])}}

StartupOk == boot.state = "ok"
StartupFailed == boot.state = "failed"

\* the storages this store attached to the index
AttachedHere == DOMAIN stores \ DOMAIN IndexBefore

\* on success the registry holds the StorageIDs of the configured paths
RegistryIsConfiguration ==
    StartupOk =>
        /\ DOMAIN paths = ConfiguredIDs(Len(boot.cfg))
        /\ \A k \in 1..Len(boot.cfg) : HasDescriptor(boot.cfg[k])
        /\ \A id \in DOMAIN paths : \E k \in 1..Len(boot.cfg) : paths[id] = boot.cfg[k]

\* C10 as stated: on success the registry's StorageIDs are those of the
\* configured paths; when startup fails no path is in the registry and none
\* is attached or declared in the index without being registered
C10_AsStated ==
    /\ RegistryIsConfiguration
    /\ StartupFailed =>
          /\ DOMAIN paths = {}
          /\ AttachedHere \subseteq DOMAIN paths
          /\ \A x \in decls : x.storage \in DOMAIN paths

\* C10: on success the registry's StorageIDs are those of the configured
\* paths and the health reporter runs; startup fails at the first path that
\* fails to open: no later path is opened, attached or declared and the health
\* reporter is not started, the paths before it stay registered and attached,
\* and the failing path may be attached and declared without being registered
C10_FailFastKeepsEarlierPaths ==
    /\ RegistryIsConfiguration
    /\ StartupOk => boot.health
    /\ StartupFailed =>
          /\ ~boot.health
          /\ DOMAIN paths = ConfiguredIDs(boot.next - 1)
          /\ ConfiguredIDs(boot.next - 1) \subseteq AttachedHere
          /\ AttachedHere \subseteq ConfiguredIDs(boot.next)
          /\ \A x \in decls : x.storage \in ConfiguredIDs(boot.next)

\* startup failed at the second path: the first is registered, the second is
\* attached and declared without being registered
C10_Witness ==
    /\ StartupFailed
    /\ boot.next = 2
    /\ DOMAIN paths = {"s1"}
    /\ "s2" \in AttachedHere
    /\ \E x \in decls : x.storage = "s2"

\* C18: a StorageID the registry maps to a root keeps that root: no step
\* changes or removes the mapping
C18_RegistryEntriesImmutable ==
    [][\A id \in DOMAIN paths : id \in DOMAIN paths' /\ paths'[id] = paths[id]]_vars

----------------------------------------------------------------------------
(* localLk: OpenPath step by step, the callers that read the registry *)

\* the reporter among the holders of the read lock; the callers are Procs
Reporter == 0

\* a registry without an entry
NoPaths == RegistryOf({})

\* st.paths[id] = p
InsertPath(reg, id, p) ==
    [x \in DOMAIN reg \cup {id} |-> IF x = id THEN p ELSE reg[x]]

\* OpenPath's steps in the order of the code, the insert before the scan
OpenStepAfter_InsertBeforeScan(step) ==
    CASE step = "Lock" -> "ReadFile"
      [] step = "ReadFile" -> "Stat"
      [] step = "Stat" -> "StorageAttach"
      [] step = "StorageAttach" -> "insert"
      [] step = "insert" -> "scan"
      [] step = "scan" -> "Unlock"

\* OpenPath's steps in the order of the code: the step after step
OpenStepAfter(step) ==
    CASE step = "Lock" -> "ReadFile"
      [] step = "ReadFile" -> "Stat"
      [] step = "Stat" -> "StorageAttach"
      [] step = "StorageAttach" -> "scan"
      [] step = "scan" -> "insert"
      [] step = "insert" -> "Unlock"

\* the failures of the scan of the type directories
ScanFailures ==
    {f \in OpenFailures : f.step \in {"none", "ReadDir", "MkdirAll", "StorageDeclareSector"}}

\* OpenPath goes on after a step that returned err: a failure runs the
\* deferred Unlock
OpenGoesOn(err) ==
    boot' = [boot EXCEPT !.err = err,
                         !.pc = IF err # ErrNone THEN "Unlock" ELSE OpenStepAfter(boot.pc)]

\* a caller calls OpenPath(p)
OpenCall ==
    /\ boot.pc = "idle"
    /\ \E p \in Roots \ {"/p1"} :
          boot' = [boot EXCEPT !.pc = "Lock", !.root = p, !.err = ErrNone]
    /\ UNCHANGED <<paths, stores, decls, disk, last, concVars, lockVars>>

\* st.localLk.Lock(): the writer announces itself, which holds new readers
\* off
OpenLock ==
    /\ boot.pc = "Lock"
    /\ lock' = [lock EXCEPT !.pending = TRUE]
    /\ boot' = [boot EXCEPT !.pc = "Locking"]
    /\ UNCHANGED <<paths, stores, decls, disk, last, concVars, health>>

\* Lock() returns once the readers that held the lock have released it
OpenLocked ==
    /\ boot.pc = "Locking"
    /\ lock.readers = {}
    /\ lock' = [lock EXCEPT !.writer = TRUE, !.pending = FALSE]
    /\ boot' = [boot EXCEPT !.pc = OpenStepAfter("Lock"), !.before = paths]
    /\ UNCHANGED <<paths, stores, decls, disk, last, concVars, health>>

\* ioutil.ReadFile and json.Unmarshal of the descriptor
OpenReadFile ==
    /\ boot.pc = "ReadFile"
    /\ \E fails \in BOOLEAN :
          OpenGoesOn(IF fails \/ ~HasDescriptor(boot.root) THEN ErrDescriptor ELSE ErrNone)
    /\ UNCHANGED <<paths, stores, decls, disk, last, concVars, lockVars>>

\* Stat(p)
OpenStat ==
    /\ boot.pc = "Stat"
    /\ \E fails \in BOOLEAN : OpenGoesOn(IF fails THEN ErrStat ELSE ErrNone)
    /\ UNCHANGED <<paths, stores, decls, disk, last, concVars, lockVars>>

\* st.index.StorageAttach
OpenAttach ==
    /\ boot.pc = "StorageAttach"
    /\ \E fails \in BOOLEAN :
          /\ OpenGoesOn(IF fails THEN ErrAttach ELSE ErrNone)
          /\ stores' = IF fails THEN stores
                       ELSE StorageAttach(stores, DescriptorAt(boot.root))
    /\ UNCHANGED <<paths, decls, disk, last, concVars, lockVars>>

\* the loop over PathTypes: the directories are listed and the sector files
\* declared
OpenScan ==
    /\ boot.pc = "scan"
    /\ \E fail \in ScanFailures :
          LET w == OpenTypes(OpenWork(paths, stores, decls), disk, boot.root,
                             DescriptorAt(boot.root), fail, 1)
          IN /\ decls' = w.decls
             /\ OpenGoesOn(w.err)
    /\ UNCHANGED <<paths, stores, disk, last, concVars, lockVars>>

\* st.paths[meta.ID] = out
OpenInsert ==
    /\ boot.pc = "insert"
    /\ paths' = InsertPath(paths, DescriptorAt(boot.root).ID, boot.root)
    /\ OpenGoesOn(ErrNone)
    /\ UNCHANGED <<stores, decls, disk, last, concVars, lockVars>>

\* the deferred st.localLk.Unlock(), and OpenPath returns boot.err
OpenUnlock ==
    /\ boot.pc = "Unlock"
    /\ lock' = [lock EXCEPT !.writer = FALSE]
    /\ boot' = [boot EXCEPT !.pc = "idle",
                            !.done = IF boot.err = ErrNone THEN @ \cup {boot.root} ELSE @]
    /\ UNCHANGED <<paths, stores, decls, disk, last, concVars, health>>

\* the operations that read the registry, and whether they take the read lock
LockedReaders == {"AcquireSector", "Local", "FsStat"}
RegistryReaders == LockedReaders \cup {"removeSector"}

\* what a read of the registry by an operation that holds no lock can give:
\* a read together with OpenPath's insert is a data race, and gives the
\* registry without the insert, with it, or ends the process ("concurrent
\* map read and map write")
UnlockedReads ==
    IF boot.pc = "insert"
    THEN {[pc |-> "done", seen |-> paths],
          [pc |-> "done",
           seen |-> InsertPath(paths, DescriptorAt(boot.root).ID, boot.root)],
          [pc |-> "fatal", seen |-> NoPaths]}
    ELSE {[pc |-> "done", seen |-> paths]}

\* the callers of these operations: one at a time, next to the reporter
Readers == {1}

\* caller p starts an operation that reads the registry: one that locks is
\* at its RLock, removeSector at its read
ReadCall(p) ==
    /\ procs[p] = Idle
    /\ \E op \in RegistryReaders :
          procs' = [procs EXCEPT ![p] =
                       [op |-> op, pc |-> IF op \in LockedReaders THEN "RLock" ELSE "read",
                        seen |-> NoPaths]]
    /\ UNCHANGED <<paths, stores, decls, disk, last, overlap, ncalls, boot, lockVars>>

\* st.localLk.RLock()
ReadRLock(p) ==
    /\ procs[p] # Idle
    /\ procs[p].pc = "RLock"
    /\ ~lock.writer /\ ~lock.pending
    /\ lock' = [lock EXCEPT !.readers = @ \cup {p}]
    /\ procs' = [procs EXCEPT ![p].pc = "read"]
    /\ UNCHANGED <<paths, stores, decls, disk, last, overlap, ncalls, boot, health>>

\* the operation reads st.paths
ReadPaths(p) ==
    /\ procs[p] # Idle
    /\ procs[p].pc = "read"
    /\ IF procs[p].op \in LockedReaders
       THEN procs' = [procs EXCEPT ![p].pc = "RUnlock", ![p].seen = paths]
       ELSE \E r \in UnlockedReads :
               procs' = [procs EXCEPT ![p].pc = r.pc, ![p].seen = r.seen]
    /\ UNCHANGED <<paths, stores, decls, disk, last, overlap, ncalls, boot, lockVars>>

\* the deferred st.localLk.RUnlock(), and the operation returns
ReadRUnlock(p) ==
    /\ procs[p] # Idle
    /\ procs[p].pc = "RUnlock"
    /\ lock' = [lock EXCEPT !.readers = @ \ {p}]
    /\ procs' = [procs EXCEPT ![p] = Idle]
    /\ UNCHANGED <<paths, stores, decls, disk, last, overlap, ncalls, boot, health>>

\* removeSector returns
ReadReturn(p) ==
    /\ procs[p] # Idle
    /\ procs[p].pc = "done"
    /\ procs' = [procs EXCEPT ![p] = Idle]
    /\ UNCHANGED <<paths, stores, decls, disk, last, overlap, ncalls, boot, lockVars>>

----------------------------------------------------------------------------
(* reportHealth *)

\* HeartbeatInterval, the configured base interval, in the unit of
\* time.Duration
HeartbeatInterval == 10

\* the values HeartbeatInterval can be set to
HeartbeatIntervals == 1..MaxInterval

\* rand.Int63n(n): the values it can return
Int63n(n) == 0..(n - 1)

\* interval := (HeartbeatInterval*100_000 + time.Duration(rand.Int63n(10_000))) / 100_000
\* with HeartbeatInterval h and the draw r, in the integers of time.Duration
Interval(h, r) == (h * 100000 + r) \div 100000

\* the intervals a reporter with HeartbeatInterval h can sleep
Intervals(h) == {Interval(h, r) : r \in Int63n(10000)}

\* no report taken
NoReports == [id \in {} |-> "stat"]

\* the reporter started with HeartbeatInterval h, its interval not yet
\* computed
HealthNew(h) == [pc |-> "start", base |-> h]

\* the reporter, its interval computed, before its first select
HealthStarted(h, interval) ==
    [pc |-> "select", base |-> h, interval |-> interval, toReport |-> NoReports,
     cancelled |-> FALSE]

\* the snapshots the loop over st.paths can take: for each registered path
\* the result of Stat, or its error
Snapshots(reg) == [DOMAIN reg -> {"stat", "err"}]

\* the reporter after the loop over toReport, StorageReportHealth having
\* failed for the reports of failed: an error ends the loop
Forwarded_ErrorEndsLoop(h, failed) ==
    IF failed # {} THEN [h EXCEPT !.pc = "exited"]
    ELSE [h EXCEPT !.pc = "select", !.toReport = NoReports]

\* the reporter after the loop over toReport, StorageReportHealth having
\* failed for the reports of failed: the errors are logged, and the reporter
\* is back at its select
Forwarded(h, failed) == [h EXCEPT !.pc = "select", !.toReport = NoReports]

\* the context is cancelled
Cancel ==
    /\ ~health.cancelled
    /\ health' = [health EXCEPT !.cancelled = TRUE]
    /\ UNCHANGED <<paths, stores, decls, disk, last, concVars, boot, lock>>

\* the reporter comes to its select: the timer is new, so only a context
\* that is done can be ready
HealthSelect ==
    /\ health.pc = "select"
    /\ health' = [health EXCEPT !.pc = IF health.cancelled THEN "exited" ELSE "waiting"]
    /\ UNCHANGED <<paths, stores, decls, disk, last, concVars, boot, lock>>

\* case <-time.After(interval)
HealthTimer ==
    /\ health.pc = "waiting"
    /\ health' = [health EXCEPT !.pc = "RLock"]
    /\ UNCHANGED <<paths, stores, decls, disk, last, concVars, boot, lock>>

\* case <-ctx.Done(): return
HealthDone ==
    /\ health.pc = "waiting"
    /\ health.cancelled
    /\ health' = [health EXCEPT !.pc = "exited"]
    /\ UNCHANGED <<paths, stores, decls, disk, last, concVars, boot, lock>>

\* st.localLk.RLock()
HealthRLock ==
    /\ health.pc = "RLock"
    /\ ~lock.writer /\ ~lock.pending
    /\ lock' = [lock EXCEPT !.readers = @ \cup {Reporter}]
    /\ health' = [health EXCEPT !.pc = "snapshot"]
    /\ UNCHANGED <<paths, stores, decls, disk, last, concVars, boot>>

\* the loop over st.paths that fills toReport
HealthSnapshot ==
    /\ health.pc = "snapshot"
    /\ \E rep \in Snapshots(paths) :
          health' = [health EXCEPT !.pc = "RUnlock", !.toReport = rep]
    /\ UNCHANGED <<paths, stores, decls, disk, last, concVars, boot, lock>>

\* st.localLk.RUnlock()
HealthRUnlock ==
    /\ health.pc = "RUnlock"
    /\ lock' = [lock EXCEPT !.readers = @ \ {Reporter}]
    /\ health' = [health EXCEPT !.pc = "report"]
    /\ UNCHANGED <<paths, stores, decls, disk, last, concVars, boot>>

\* the loop over toReport: StorageReportHealth for every report
HealthForward ==
    /\ health.pc = "report"
    /\ \E failed \in SUBSET DOMAIN health.toReport :
          health' = Forwarded(health, failed)
    /\ UNCHANGED <<paths, stores, decls, disk, last, concVars, boot, lock>>

\* the first statement of reportHealth: the interval is computed from a
\* draw
HealthStart ==
    /\ health.pc = "start"
    /\ \E r \in Int63n(10000) :
          health' = HealthStarted(health.base, Interval(health.base, r))
    /\ UNCHANGED <<paths, stores, decls, disk, last, concVars, boot, lock>>

\* a reporter is started, with any HeartbeatInterval
InitInterval ==
    /\ paths = RegistryOf({})
    /\ stores = IndexBefore
    /\ decls = {}
    /\ disk = {}
    /\ last = NoCall
    /\ NoCallers
    /\ boot = Booted
    /\ lock = Unlocked
    /\ \E h \in HeartbeatIntervals : health = HealthNew(h)

SpecInterval == InitInterval /\ [][HealthStart]_vars

----------------------------------------------------------------------------
(* The store at work: OpenPath, the readers of the registry, the reporter *)

\* the entries /p2 may hold when it is opened
ReopenFiles ==
    {JoinPath("/p2", FileTypeString(t), n) :
        t \in {FTSealed}, n \in {SectorName(SectorA), "x"}}

\* the store after NewLocal opened /p1: s1 is registered and attached, the
\* reporter runs, no OpenPath is in progress
InitLock ==
    /\ paths = RegistryOf({"s1"})
    /\ stores = StorageAttach(IndexBefore, MetaOf("s1"))
    /\ decls = {}
    /\ disk \in SubsetsUpTo(ReopenFiles, MaxFiles)
    /\ last = NoCall
    /\ NoCallers
    /\ lock = Unlocked
    /\ boot = [state |-> "ok", pc |-> "idle", root |-> "/p1", err |-> ErrNone,
               before |-> paths, done |-> {"/p1"}]
    /\ \E i \in Intervals(HeartbeatInterval) : health = HealthStarted(HeartbeatInterval, i)

ReadSteps(p) ==
    \/ ReadRLock(p)
    \/ ReadPaths(p)
    \/ ReadRUnlock(p)
    \/ ReadReturn(p)

OpenSteps ==
    \/ OpenLock
    \/ OpenLocked
    \/ OpenReadFile
    \/ OpenStat
    \/ OpenAttach
    \/ OpenScan
    \/ OpenInsert
    \/ OpenUnlock

HealthSteps ==
    \/ HealthSelect
    \/ HealthTimer
    \/ HealthDone
    \/ HealthRLock
    \/ HealthSnapshot
    \/ HealthRUnlock
    \/ HealthForward

NextLock ==
    \/ OpenCall
    \/ OpenSteps
    \/ \E p \in Readers :
          \/ ReadCall(p)
          \/ ReadSteps(p)
    \/ Cancel
    \/ HealthSteps

SpecLock == InitLock /\ [][NextLock]_vars

\* the scheduler runs whoever can take a step, and the index and file
\* system calls made under the lock return: an OpenPath and an operation
\* that reads the registry go on to their return, and so does the reporter;
\* a reader Lock() held off has the lock once the writer releases it
SpecHealth ==
    /\ SpecLock
    /\ WF_vars(OpenSteps)
    /\ \A p \in Readers : WF_vars(ReadSteps(p))
    /\ WF_vars(HealthSelect)
    /\ WF_vars(HealthTimer)
    /\ WF_vars(HealthDone)
    /\ SF_vars(HealthRLock)
    /\ WF_vars(HealthSnapshot)
    /\ WF_vars(HealthRUnlock)
    /\ WF_vars(HealthForward)

----------------------------------------------------------------------------
(* The lock: who reads the registry under it, what OpenPath shows of itself *)

\* the callers whose operation is at its read of st.paths
AtRead(p) == procs[p] # Idle /\ procs[p].pc = "read"

\* C13: every read of the registry, by a caller's operation or by the
\* reporter's snapshot, is made by a holder of the read lock while no
\* OpenPath holds the write lock
C13_ReadsHoldTheReadLock ==
    /\ \A p \in Readers : AtRead(p) => p \in lock.readers /\ ~lock.writer
    /\ health.pc = "snapshot" => Reporter \in lock.readers /\ ~lock.writer

\* OpenPath is between its Lock and its return
OpenHoldsLock ==
    boot.pc \in {"ReadFile", "Stat", "StorageAttach", "scan", "insert", "Unlock"}

\* the registries the holders of the read lock have read
SeenUnderLock ==
    {procs[p].seen : p \in {q \in Readers : procs[q] # Idle /\ procs[q].pc = "RUnlock"}}
    \cup (IF health.pc = "RUnlock"
          THEN {[id \in DOMAIN health.toReport |-> paths[id]]} ELSE {})

\* C16: OpenPath holds the write lock, alone, from its first step to its
\* return; the registry differs from what it was at the Lock only once every
\* other step is done and none failed; and what AcquireSector, Local, FsStat
\* and the reporter's snapshot read under the read lock holds only roots whose
\* OpenPath returned nil
C16_OpenPathAtomicTowardReaders ==
    /\ OpenHoldsLock => lock.writer /\ lock.readers = {}
    /\ OpenHoldsLock /\ paths # boot.before => boot.pc = "Unlock" /\ boot.err = ErrNone
    /\ lock.readers # {} => ~lock.writer /\ \A id \in DOMAIN paths : paths[id] \in boot.done
    /\ \A reg \in SeenUnderLock : \A id \in DOMAIN reg : reg[id] \in boot.done

\* an OpenPath of /p2 declared a sector and then failed at a name that is
\* no sector's: it is at its Unlock with the registry as it was, while a
\* caller waits for the read lock
C16_Witness ==
    /\ boot.pc = "Unlock"
    /\ boot.err = ErrParse
    /\ boot.root = "/p2"
    /\ \E x \in decls : x.storage = "s2"
    /\ paths = boot.before
    /\ DOMAIN paths = {"s1"}
    /\ \E p \in Readers : procs[p] # Idle /\ procs[p].pc = "RLock"

\* what holds of the reporter wherever it is
HealthSafe ==
    /\ health.pc \in {"snapshot", "RUnlock"} => Reporter \in lock.readers /\ ~lock.writer
    /\ health.pc = "RUnlock" => DOMAIN health.toReport = DOMAIN paths
    /\ health.pc = "report" => Reporter \notin lock.readers
    /\ health.pc \in {"select", "waiting", "RLock", "exited"} => Reporter \notin lock.readers
    /\ health.pc = "exited" => health.cancelled

\* C17: the reporter takes its snapshot holding the read lock, with one
\* report, a stat or an error, for every registered path; it holds no lock
\* while it forwards; it has exited only if the context was cancelled; and
\* once the context is cancelled it exits
C17_ReporterCyclesUntilCancelled ==
    /\ []HealthSafe
    /\ (health.cancelled ~> health.pc = "exited")

\* the reporter forwards the reports of two paths, an error for s1 and a
\* stat for s2, with the context cancelled
C17_Witness ==
    /\ health.pc = "report"
    /\ health.cancelled
    /\ DOMAIN health.toReport = {"s1", "s2"}
    /\ health.toReport["s1"] = "err"
    /\ health.toReport["s2"] = "stat"

\* C20: once the interval is computed, some draw gives an interval other
\* than HeartbeatInterval, and the intervals of the draws spread over a
\* twentieth of HeartbeatInterval at least
C20_IntervalRandomised ==
    health.pc # "start" =>
        LET is == Intervals(health.base)
        IN /\ health.interval \in is
           /\ \E i \in is : i # health.base
           /\ \E i, j \in is : (i - j) * 20 >= health.base

====
